---- MODULE Spec2Model ----
(***************************************************************************)
(* Product catalog router (products.route over the Product model).         *)
(*                                                                         *)
(* State: the Product collection, the Review collection, and the position  *)
(* and locals of every handler that awaits the database more than once.    *)
(* A handler with a single await (uploadImages, create-product,            *)
(* update-product) is one action; a handler with two awaits (list, get     *)
(* one, delete, related) is one action per await, so that other requests   *)
(* interleave exactly where the Node.js event loop lets them.              *)
(*                                                                         *)
(* Mongoose semantics the handlers rely on (defaults, no option is set in  *)
(* the source):                                                            *)
(*   - schema strict mode: a key that is no path of ProductSchema is       *)
(*     dropped by `new Products(obj)` and by the $set of an update;        *)
(*   - an undefined value in an update is removed before the update runs;  *)
(*   - `required` on an array path accepts the empty array;                *)
(*   - a filter key that is no schema path is passed to the database       *)
(*     unchanged, and an undefined filter value is sent as null, which     *)
(*     matches the documents that lack the key;                            *)
(*   - sort is applied before skip and limit whatever the call order.      *)
(* The automatic updatedAt timestamp is not part of the state.             *)
(***************************************************************************)
EXTENDS Integers, Sequences, FiniteSets, TLC

VARIABLES products, reviews, nextId, nextReviewId, resp, del, one, list, rel

vars == <<products, reviews, nextId, nextReviewId, resp, del, one, list, rel>>

\* ---------------------------------------------------------------- bounds
MaxProducts == 2
MaxReviews == 2
MaxPage == 3
MaxLimit == 2

\* ------------------------------------------------------ program constants
DefaultPage == 1
DefaultLimit == 10

\* category: 'عام' ("general") in the literal handed to new Products(...)
GENERAL == "general"

SchemaPaths == {"name", "description", "image", "author"}

\* ids a request can carry: every id the store can ever hand out
ProductIds == 1..MaxProducts

\* well-formed ObjectId strings; any other string fails the ObjectId cast
ObjectIds == {"u1", "u2"}

\* users the User collection holds; an author outside it is a dangling reference
UserIds == {"u1"}

\* variant of Falsy: the check forgets the author
FalsyButAuthor(body, k) ==
    /\ k # "author"
    /\ \/ k \notin body.has
       \/ k \in {"name", "description"} /\ body[k] = <<>>

\* ------------------------------------------------------------ JS helpers
\* `!v` for a destructured body field: undefined (absent) or the empty string;
\* an array, even empty, is truthy
Falsy(body, k) ==
    \/ k \notin body.has
    \/ k \in {"name", "description"} /\ body[k] = <<>>
    \/ k = "author" /\ body[k] = ""

Max(a, b) == IF a > b THEN a ELSE b
Min(a, b) == IF a < b THEN a ELSE b

\* ------------------------------------------------------- Mongoose helpers
\* strict mode: only the schema's paths of the given object are kept
StrictCast(obj) == [k \in (DOMAIN obj) \cap SchemaPaths |-> obj[k]]

\* the document a save() of `new Products(obj)` would store: the schema paths
\* of obj, the generated _id and the createdAt timestamp (a logical clock)
NewDocument(obj) == StrictCast(obj) @@ [id |-> nextId, createdAt |-> nextId]

\* path validation, as run by save() and by an update with runValidators:
\* required strings are non-empty, author casts to an ObjectId, image is
\* an array (the empty array passes `required`)
PathError(k, v) ==
    CASE k \in {"name", "description"} -> IF v = <<>> THEN "ValidationError" ELSE ""
      [] k = "author" -> IF v \notin ObjectIds THEN "CastError" ELSE ""
      [] OTHER -> ""

\* first error of the paths `ks` of record d ("" when all pass)
FirstError(d, ks) ==
    IF \E k \in ks : PathError(k, d[k]) # ""
    THEN PathError(CHOOSE k \in ks : PathError(k, d[k]) # "", 
                   d[CHOOSE k \in ks : PathError(k, d[k]) # ""])
    ELSE ""

ProductById(id) == {p \in products : p.id = id}

NoDoc == [none |-> TRUE]
NullRef == [null |-> TRUE]

\* populate("author", fields): the reference replaced by the projection of the
\* user it names, or by null when it names none
Populate(doc, fields) ==
    [k \in DOMAIN doc |->
        IF k = "author"
        THEN IF doc.author \in UserIds
             THEN [id |-> doc.author, fields |-> fields]
             ELSE NullRef
        ELSE doc[k]]

\* ------------------------------------------------------------- responses
Response(op, req, status, body) ==
    [op |-> op, req |-> req, status |-> status, body |-> body]

NoResponse == [op |-> "none"]

\* ------------------------------------------------- POST /uploadImages
\* uploadImages(images): one stored location per payload
UploadedUrls(images) == [i \in 1..Len(images) |-> <<"url", images[i]>>]

UploadImages(req, fail) ==
    /\ resp' =
         IF req.kind # "array"
         THEN Response("upload", req, 400, [message |-> "images array required"])
         ELSE IF fail
         THEN Response("upload", req, 500, [message |-> "image upload failed"])
         ELSE Response("upload", req, 200, [urls |-> UploadedUrls(req.images)])
    /\ UNCHANGED <<products, reviews, nextId, nextReviewId, del, one, list, rel>>

\* ------------------------------------------------- POST /create-product
RequiredFields == {"name", "description", "image", "author"}

\* the object literal handed to new Products(...)
NewProductObject(body) ==
    [name |-> body.name, description |-> body.description,
     image |-> body.image, author |-> body.author,
     category |-> GENERAL, price |-> 0, quantity |-> 1]

CreateProduct(body, fail) ==
    LET doc == NewDocument(NewProductObject(body)) IN
    /\ IF \E k \in RequiredFields : Falsy(body, k)
       THEN /\ resp' = Response("create", body, 400,
                                [message |-> "required fields missing"])
            /\ UNCHANGED <<products, nextId>>
       ELSE IF fail \/ FirstError(doc, SchemaPaths) # ""
       THEN /\ resp' = Response("create", body, 500,
                                [message |-> "product creation failed"])
            /\ UNCHANGED <<products, nextId>>
       ELSE /\ nextId <= MaxProducts
            /\ products' = products \cup {doc}
            /\ nextId' = nextId + 1
            /\ resp' = Response("create", body, 201, doc)
    /\ UNCHANGED <<reviews, nextReviewId, del, one, list, rel>>

\* ------------------------------------------- PATCH /update-product/:id
\* updateData = {...req.body, author: req.body.author}, image replaced by
\* [req.file.path] when a file was uploaded. `has` are the keys with a
\* value, `undef` the keys present with the value undefined.
UpdateData(body, file) ==
    [body EXCEPT
        !.has = @ \cup (IF file # <<>> THEN {"image"} ELSE {}),
        !.image = IF file # <<>> THEN file ELSE @]
    @@ [undef |-> IF "author" \in body.has THEN {} ELSE {"author"}]

\* the paths the $set writes: strict mode drops the keys outside the schema,
\* and the keys whose value is undefined are removed
SetPaths(data) == data.has \cap SchemaPaths

\* variant of ApplySet: a key whose value is undefined is written too
ApplySetUndefined(p, data) ==
    [k \in DOMAIN p |->
        IF k \in (data.has \cup data.undef) \cap SchemaPaths THEN data[k] ELSE p[k]]

\* findByIdAndUpdate(id, {$set: data}, {new: true}) on a stored document
ApplySet(p, data) ==
    [k \in DOMAIN p |-> IF k \in SetPaths(data) THEN data[k] ELSE p[k]]

UpdateProduct(id, body, file, fail) ==
    LET data == UpdateData(body, file)
        req == [id |-> id, body |-> body, file |-> file]
        err == IF FirstError(data, SetPaths(data)) # ""
               THEN FirstError(data, SetPaths(data))
               ELSE IF fail THEN "MongoError" ELSE ""
    IN
    /\ IF err # ""
       THEN /\ resp' = Response("update", req, 500,
                                [message |-> "product update failed", error |-> err])
            /\ UNCHANGED products
       ELSE IF ProductById(id) = {}
       THEN /\ resp' = Response("update", req, 404,
                                [message |-> "product not found"])
            /\ UNCHANGED products
       ELSE LET p == CHOOSE q \in ProductById(id) : TRUE
                updated == ApplySet(p, data)
            IN /\ products' = (products \ {p}) \cup {updated}
               /\ resp' = Response("update", req, 200,
                                   [message |-> "product updated", product |-> updated])
    /\ UNCHANGED <<reviews, nextId, nextReviewId, del, one, list, rel>>

\* ------------------------------------------------------- DELETE /:id
DelIdle == [pc |-> "idle", id |-> 0, status |-> 0, insertedSince |-> FALSE]

\* await Products.findByIdAndDelete(productId)
DeleteProduct(id, fail) ==
    /\ del.pc \in {"idle", "done"}
    /\ IF fail
       THEN /\ del' = [pc |-> "done", id |-> id, status |-> 500, insertedSince |-> FALSE]
            /\ UNCHANGED products
       ELSE IF ProductById(id) = {}
       THEN /\ del' = [pc |-> "done", id |-> id, status |-> 404, insertedSince |-> FALSE]
            /\ UNCHANGED products
       ELSE /\ products' = products \ ProductById(id)
            /\ del' = [pc |-> "removed", id |-> id, status |-> 0, insertedSince |-> FALSE]
    /\ UNCHANGED <<reviews, nextId, nextReviewId, resp, one, list, rel>>

\* variant of ReviewsAfterDeleteMany: deleteOne
ReviewsAfterDeleteOne(id) ==
    IF \E r \in reviews : r.productId = id
    THEN reviews \ {CHOOSE r \in reviews : r.productId = id}
    ELSE reviews

\* Reviews.deleteMany({productId})
ReviewsAfterDeleteMany(id) == {r \in reviews : r.productId # id}

\* await Reviews.deleteMany({ productId }), then the 200 response
DeleteReviews(fail) ==
    /\ del.pc = "removed"
    /\ IF fail
       THEN /\ del' = [del EXCEPT !.pc = "done", !.status = 500]
            /\ UNCHANGED reviews
       ELSE /\ reviews' = ReviewsAfterDeleteMany(del.id)
            /\ del' = [del EXCEPT !.pc = "done", !.status = 200]
    /\ UNCHANGED <<products, nextId, nextReviewId, resp, one, list, rel>>

\* a review inserted by the reviews router; insertedSince records that it
\* came after the delete of the same product started
AddReview(pid) ==
    /\ nextReviewId <= MaxReviews
    /\ reviews' = reviews \cup {[id |-> nextReviewId, productId |-> pid]}
    /\ nextReviewId' = nextReviewId + 1
    /\ del' = IF del.pc \in {"removed", "done"} /\ del.id = pid
              THEN [del EXCEPT !.insertedSince = TRUE]
              ELSE del
    /\ UNCHANGED <<products, nextId, resp, one, list, rel>>

\* ----------------------------------------------------------- GET /:id
OneIdle ==
    [pc |-> "idle", id |-> 0, product |-> NoDoc, reviews |-> {},
     fetched |-> FALSE, status |-> 0]

\* variant of ReviewsOf: the query carries no filter
AllReviews(id) == reviews

\* Reviews.find({ productId })
ReviewsOf(id) == {r \in reviews : r.productId = id}

\* await Products.findById(productId).populate("author", "email username")
GetProduct(id, fail) ==
    /\ one.pc \in {"idle", "done"}
    /\ one' =
         IF fail
         THEN [OneIdle EXCEPT !.pc = "done", !.id = id, !.status = 500]
         ELSE IF ProductById(id) = {}
         THEN [OneIdle EXCEPT !.pc = "done", !.id = id, !.status = 404]
         ELSE [OneIdle EXCEPT !.pc = "found", !.id = id,
                 !.product = Populate(CHOOSE p \in ProductById(id) : TRUE,
                                      {"email", "username"})]
    /\ UNCHANGED <<products, reviews, nextId, nextReviewId, resp, del, list, rel>>

\* await Reviews.find({ productId }), then the 200 response; `fetched`
\* records that the review query was issued
GetReviews(fail) ==
    /\ one.pc = "found"
    /\ one' =
         IF fail
         THEN [one EXCEPT !.pc = "done", !.fetched = TRUE, !.status = 500]
         ELSE [one EXCEPT !.pc = "done", !.fetched = TRUE,
                 !.reviews = ReviewsOf(one.id), !.status = 200]
    /\ UNCHANGED <<products, reviews, nextId, nextReviewId, resp, del, list, rel>>

\* -------------------------------------------------------------- GET /
Numerals == <<"1", "2", "3", "4", "5", "6", "7", "8", "9">>

\* parseInt of a decimal numeral
ParseInt(s) == CHOOSE n \in 1..Len(Numerals) : Numerals[n] = s

\* parseFloat: the number a numeric string denotes, NaN for any other string
ParseFloat(s) ==
    CASE s = "10" -> [nan |-> FALSE, v |-> 10]
      [] s = "20" -> [nan |-> FALSE, v |-> 20]
      [] OTHER -> [nan |-> TRUE, v |-> 0]

\* a query parameter that is absent or empty is falsy
Param(q, k) == k \in q.has /\ q[k] # ""

PageOf(q) == IF "page" \in q.has THEN ParseInt(q.page) ELSE DefaultPage
LimitOf(q) == IF "limit" \in q.has THEN ParseInt(q.limit) ELSE DefaultLimit

\* the filter object built from the query string
FilterOf(q) ==
    [category |-> [on |-> Param(q, "category") /\ q.category # "all", v |-> q.category],
     color |-> [on |-> Param(q, "color") /\ q.color # "all", v |-> q.color],
     price |-> [on |-> /\ Param(q, "minPrice") /\ Param(q, "maxPrice")
                       /\ ~ParseFloat(q.minPrice).nan
                       /\ ~ParseFloat(q.maxPrice).nan,
                min |-> ParseFloat(q.minPrice).v,
                max |-> ParseFloat(q.maxPrice).v]]

\* a stored document matches an equality on a key only if it holds the key
MatchesFilter(doc, f) ==
    /\ f.category.on => "category" \in DOMAIN doc /\ doc.category = f.category.v
    /\ f.color.on => "color" \in DOMAIN doc /\ doc.color = f.color.v
    /\ f.price.on => /\ "price" \in DOMAIN doc
                     /\ doc.price >= f.price.min
                     /\ doc.price <= f.price.max

Matching(f) == {p \in products : MatchesFilter(p, f)}

\* Math.ceil(a / b)
Ceil(a, b) == IF a % b = 0 THEN a \div b ELSE (a \div b) + 1

\* sort({ createdAt: -1 })
RECURSIVE SortDesc(_)
SortDesc(S) ==
    IF S = {} THEN <<>>
    ELSE LET newest == CHOOSE p \in S : \A q \in S : q.createdAt <= p.createdAt
         IN <<newest>> \o SortDesc(S \ {newest})

\* variant of SkipOf: the page is taken as 0-indexed
SkipOfPage(q) == PageOf(q) * LimitOf(q)

SkipOf(q) == (PageOf(q) - 1) * LimitOf(q)

\* find(filter).skip(skip).limit(limit).populate("author", "email").sort(...):
\* the query sorts, then skips, then limits
FindPage(q) ==
    LET sorted == SortDesc(Matching(FilterOf(q)))
        page == SubSeq(sorted, SkipOf(q) + 1, Min(SkipOf(q) + LimitOf(q), Len(sorted)))
    IN [i \in 1..Len(page) |-> Populate(page[i], {"email"})]

ListIdle ==
    [pc |-> "idle", query |-> [has |-> {}], totalProducts |-> 0, totalPages |-> 0,
     products |-> <<>>, status |-> 0]

\* await Products.countDocuments(filter); totalPages
CountProducts(q, fail) ==
    /\ list.pc \in {"idle", "done"}
    /\ list' =
         IF fail
         THEN [ListIdle EXCEPT !.pc = "done", !.query = q, !.status = 500]
         ELSE [ListIdle EXCEPT !.pc = "counted", !.query = q,
                 !.totalProducts = Cardinality(Matching(FilterOf(q))),
                 !.totalPages = Ceil(Cardinality(Matching(FilterOf(q))), LimitOf(q))]
    /\ UNCHANGED <<products, reviews, nextId, nextReviewId, resp, del, one, rel>>

\* await Products.find(filter)..., then the 200 response
FindProducts(fail) ==
    /\ list.pc = "counted"
    /\ list' =
         IF fail
         THEN [list EXCEPT !.pc = "done", !.status = 500]
         ELSE [list EXCEPT !.pc = "done", !.products = FindPage(list.query),
                 !.status = 200]
    /\ UNCHANGED <<products, reviews, nextId, nextReviewId, resp, del, one, rel>>

\* ---------------------------------------------------- GET /related/:id
Lower(c) ==
    CASE c = "A" -> "a"
      [] c = "B" -> "b"
      [] c = "C" -> "c"
      [] OTHER -> c

\* String.prototype.split(sep) for a one-character separator
RECURSIVE Split(_, _)
Split(s, sep) ==
    IF \A i \in 1..Len(s) : s[i] # sep
    THEN <<s>>
    ELSE LET i == CHOOSE j \in 1..Len(s) :
                      s[j] = sep /\ \A k \in 1..(j - 1) : s[k] # sep
         IN <<SubSeq(s, 1, i - 1)>> \o Split(SubSeq(s, i + 1, Len(s)), sep)

\* Array.prototype.join(sep)
RECURSIVE Join(_, _)
Join(words, sep) ==
    IF words = <<>> THEN <<>>
    ELSE IF Len(words) = 1 THEN words[1]
    ELSE words[1] \o <<sep>> \o Join(Tail(words), sep)

LongWord(w) == Len(w) > 1

\* the source of titleRegex
TitlePattern(name) == Join(SelectSeq(Split(name, " "), LongWord), "|")

\* one pattern character against one subject character, flag "i";
\* "." matches any character
AtomMatches(a, c) == a = "." \/ Lower(a) = Lower(c)

\* new RegExp(pattern, "i").test(s), for patterns of literals, "." and "|":
\* some alternative matches at some position; the empty alternative matches
\* at every position
RegExpTest(pattern, s) ==
    \E n \in 1..Len(Split(pattern, "|")) :
        LET alt == Split(pattern, "|")[n] IN
        \E i \in 1..(Len(s) + 1) :
            /\ i + Len(alt) - 1 <= Len(s)
            /\ \A j \in 1..Len(alt) : AtomMatches(alt[j], s[i + j - 1])

\* { category: product.category }: product.category reads a key of the
\* fetched document; undefined is sent as null, which matches the documents
\* that lack the key
MatchesCategoryOf(doc, product) ==
    IF "category" \in DOMAIN product
    THEN "category" \in DOMAIN doc /\ doc.category = product.category
    ELSE "category" \notin DOMAIN doc

\* variant of RelatedQuery: the target is not excluded
RelatedQueryWithTarget(id, product) ==
    {q \in products :
        \/ RegExpTest(TitlePattern(product.name), q.name)
        \/ MatchesCategoryOf(q, product)}

\* Products.find({ _id: { $ne: id }, $or: [ name regex, category ] })
RelatedQuery(id, product) ==
    {q \in products :
        /\ q.id # id
        /\ \/ RegExpTest(TitlePattern(product.name), q.name)
           \/ MatchesCategoryOf(q, product)}

RelIdle ==
    [pc |-> "idle", id |-> 0, product |-> NoDoc, pattern |-> <<>>,
     result |-> {}, status |-> 0]

\* await Products.findById(id)
FindTarget(id, fail) ==
    /\ rel.pc \in {"idle", "done"}
    /\ rel' =
         IF fail
         THEN [RelIdle EXCEPT !.pc = "done", !.id = id, !.status = 500]
         ELSE IF ProductById(id) = {}
         THEN [RelIdle EXCEPT !.pc = "done", !.id = id, !.status = 404]
         ELSE [RelIdle EXCEPT !.pc = "found", !.id = id,
                 !.product = CHOOSE p \in ProductById(id) : TRUE]
    /\ UNCHANGED <<products, reviews, nextId, nextReviewId, resp, del, one, list>>

\* titleRegex, await Products.find(...), then the 200 response
FindRelated(fail) ==
    /\ rel.pc = "found"
    /\ rel' =
         IF fail
         THEN [rel EXCEPT !.pc = "done", !.pattern = TitlePattern(rel.product.name),
                 !.status = 500]
         ELSE [rel EXCEPT !.pc = "done", !.pattern = TitlePattern(rel.product.name),
                 !.result = RelatedQuery(rel.id, rel.product), !.status = 200]
    /\ UNCHANGED <<products, reviews, nextId, nextReviewId, resp, del, one, list>>
-----------------------------------------------------------------------------
\* ------------------------------------------------------- request inputs
\* a request body: `has` are the keys sent; a key not sent reads undefined
\* (its slot holds a fixed filler that no handler reads as a value)
Body(has, name, description, image, author) ==
    [has |-> has,
     name |-> IF "name" \in has THEN name ELSE <<>>,
     description |-> IF "description" \in has THEN description ELSE <<>>,
     image |-> IF "image" \in has THEN image ELSE <<>>,
     author |-> IF "author" \in has THEN author ELSE ""]

Name_A == <<"A">>
Name_ab == <<"a", "b">>
Name_AB_c == <<"A", "B", " ", "c">>
Name_cd == <<"c", "d">>
Desc == <<"d">>
Img == <<"img1">>
File == <<"uploads/products/image-1.png">>

\* every combination of missing, empty and valid core fields
CreateBodies ==
    {Body(has, n, Desc, i, a) :
        has \in SUBSET RequiredFields, n \in {<<>>, Name_ab},
        i \in {<<>>, Img}, a \in {"u1", "bad"}}

ValidBody(name, author) == Body(RequiredFields, name, Desc, Img, author)

\* a partial update payload; category is no path of the schema
UpdateBody(has, name, author) ==
    Body(has, name, <<>>, <<>>, author) @@ [category |-> "shoes"]

UpdateBodies ==
    {UpdateBody({}, <<>>, ""),
     UpdateBody({"name"}, Name_cd, ""),
     UpdateBody({"name"}, <<>>, ""),
     UpdateBody({"author"}, <<>>, "u2"),
     UpdateBody({"author"}, <<>>, "bad"),
     UpdateBody({"category"}, <<>>, "")}

\* an update request: a payload without a file, or a file with an empty payload
UpdateInputs ==
    {<<body, <<>>>> : body \in UpdateBodies} \cup {<<UpdateBody({}, <<>>, ""), File>>}

UploadRequests ==
    {[kind |-> "missing", images |-> <<>>],
     [kind |-> "string", images |-> <<>>],
     [kind |-> "array", images |-> <<>>],
     [kind |-> "array", images |-> <<"data1", "data2">>]}

Query(has, category, minPrice, maxPrice, page, limit) ==
    [has |-> has,
     category |-> IF "category" \in has THEN category ELSE "",
     color |-> "",
     minPrice |-> IF "minPrice" \in has THEN minPrice ELSE "",
     maxPrice |-> IF "maxPrice" \in has THEN maxPrice ELSE "",
     page |-> IF "page" \in has THEN page ELSE "",
     limit |-> IF "limit" \in has THEN limit ELSE ""]

\* the filters of a query string: none, the "all" sentinel, a category, a
\* lone minPrice, a price range, a range whose maxPrice is no number
FilterParams ==
    {Query({}, "", "", "", "", ""),
     Query({"category"}, "all", "", "", "", ""),
     Query({"category"}, "shoes", "", "", "", ""),
     Query({"minPrice"}, "", "10", "", "", ""),
     Query({"minPrice", "maxPrice"}, "", "10", "20", "", ""),
     Query({"minPrice", "maxPrice"}, "", "10", "abc", "", "")}

\* each filter without page and limit, and with every page and limit
Queries ==
    FilterParams \cup
    {[f EXCEPT !.has = @ \cup {"page", "limit"},
               !.page = Numerals[pg], !.limit = Numerals[lm]] :
        f \in FilterParams, pg \in 1..MaxPage, lm \in 1..MaxLimit}

-----------------------------------------------------------------------------
Init ==
    /\ products = {}
    /\ reviews = {}
    /\ nextId = 1
    /\ nextReviewId = 1
    /\ resp = NoResponse
    /\ del = DelIdle
    /\ one = OneIdle
    /\ list = ListIdle
    /\ rel = RelIdle

\* every handler of the router, interleaved
Next ==
    \/ \E req \in UploadRequests, fail \in BOOLEAN : UploadImages(req, fail)
    \/ \E body \in CreateBodies \cup {ValidBody(n, a) :
                n \in {Name_A, Name_ab, Name_AB_c, Name_cd}, a \in ObjectIds},
          fail \in BOOLEAN : CreateProduct(body, fail)
    \/ \E id \in ProductIds, in \in UpdateInputs, fail \in BOOLEAN :
          UpdateProduct(id, in[1], in[2], fail)
    \/ \E id \in ProductIds, fail \in BOOLEAN : DeleteProduct(id, fail)
    \/ \E fail \in BOOLEAN : DeleteReviews(fail)
    \/ \E pid \in ProductIds : AddReview(pid)
    \/ \E id \in ProductIds, fail \in BOOLEAN : GetProduct(id, fail)
    \/ \E fail \in BOOLEAN : GetReviews(fail)
    \/ \E q \in Queries, fail \in BOOLEAN : CountProducts(q, fail)
    \/ \E fail \in BOOLEAN : FindProducts(fail)
    \/ \E id \in ProductIds, fail \in BOOLEAN : FindTarget(id, fail)
    \/ \E fail \in BOOLEAN : FindRelated(fail)

Spec == Init /\ [][Next]_vars

\* The handlers share nothing but the two collections, so each property is
\* checked under the handlers that write what it reads, with the inputs
\* that exercise it.

\* creation and deletion, every shape of create body
NextCreate ==
    \/ \E req \in UploadRequests, fail \in BOOLEAN : UploadImages(req, fail)
    \/ \E body \in CreateBodies, fail \in BOOLEAN : CreateProduct(body, fail)
    \/ \E id \in ProductIds, fail \in BOOLEAN : DeleteProduct(id, fail)
    \/ \E fail \in BOOLEAN : DeleteReviews(fail)

SpecCreate == Init /\ [][NextCreate]_vars

\* updates of stored products, with reviews present
NextUpdate ==
    \/ CreateProduct(ValidBody(Name_ab, "u1"), FALSE)
    \/ \E id \in ProductIds, in \in UpdateInputs, fail \in BOOLEAN :
          UpdateProduct(id, in[1], in[2], fail)
    \/ AddReview(1)

SpecUpdate == Init /\ [][NextUpdate]_vars

\* reviews against deletion and the product page
NextReviews ==
    \/ CreateProduct(ValidBody(Name_ab, "u2"), FALSE)
    \/ \E pid \in ProductIds : AddReview(pid)
    \/ \E id \in ProductIds, fail \in BOOLEAN : DeleteProduct(id, fail)
    \/ \E fail \in BOOLEAN : DeleteReviews(fail)
    \/ \E id \in ProductIds, fail \in BOOLEAN : GetProduct(id, fail)
    \/ \E fail \in BOOLEAN : GetReviews(fail)

SpecReviews == Init /\ [][NextReviews]_vars

\* listing against creation and deletion
NextList ==
    \/ CreateProduct(ValidBody(Name_ab, "u1"), FALSE)
    \/ \E id \in ProductIds : DeleteProduct(id, FALSE)
    \/ DeleteReviews(FALSE)
    \/ \E q \in Queries, fail \in BOOLEAN : CountProducts(q, fail)
    \/ \E fail \in BOOLEAN : FindProducts(fail)

SpecList == Init /\ [][NextList]_vars

\* the related lookup against creation, renaming and deletion
NextRelated ==
    \/ \E n \in {Name_A, Name_ab, Name_AB_c, Name_cd} :
          CreateProduct(ValidBody(n, "u1"), FALSE)
    \/ \E id \in ProductIds, has \in {{"name"}, {"category"}} :
          UpdateProduct(id, UpdateBody(has, Name_cd, "u2"), <<>>, FALSE)
    \/ \E id \in ProductIds : DeleteProduct(id, FALSE)
    \/ DeleteReviews(FALSE)
    \/ \E id \in ProductIds, fail \in BOOLEAN : FindTarget(id, fail)
    \/ \E fail \in BOOLEAN : FindRelated(fail)

SpecRelated == Init /\ [][NextRelated]_vars
-----------------------------------------------------------------------------
\* ------------------------------------------------------------ properties

\* C1: once DELETE /:id for product P has answered 200, and no review of P
\* was inserted after that delete started, the review store holds no review
\* whose productId is P (while the delete is between its two awaits, reviews
\* of P may still exist).
C1_CascadeDelete ==
    (del.pc = "done" /\ del.status = 200 /\ ~del.insertedSince)
        => \A r \in reviews : r.productId # del.id

\* a delete answered 200 that removed a review and left another product's
C1_Witness ==
    /\ del.pc = "done" /\ del.status = 200 /\ ~del.insertedSince
    /\ nextReviewId = 3
    /\ Cardinality(reviews) = 1

\* C2: a POST /create-product whose body lacks one of name, description,
\* image, author is answered 400 and leaves the product store as it was.
C2_CreateRejectsIncomplete ==
    [][(resp' # resp /\ resp'.op = "create" /\ resp'.req.has # RequiredFields)
         => (resp'.status = 400 /\ products' = products)]_vars

\* a rejected incomplete create with a product already stored
C2_Witness ==
    /\ resp.op = "create" /\ resp.status = 400
    /\ resp.req.has = RequiredFields \ {"author"}
    /\ products # {}

\* C3: the record returned with 201 by a create without category, price or
\* quantity, and the record stored, have category = "general", price = 0
\* and quantity = 1.
C3_CreateDefaults ==
    (resp.op = "create" /\ resp.status = 201)
        => /\ {"category", "price", "quantity"} \subseteq DOMAIN resp.body
           /\ resp.body.category = GENERAL
           /\ resp.body.price = 0
           /\ resp.body.quantity = 1

\* C4: every stored product has at least one image.
C4_ImageNeverEmpty == \A p \in products : p.image # <<>>

\* C5: GET / answers totalProducts = the number of stored products that
\* match the filter, totalPages = ceil(totalProducts / limit), and products
\* = the matching products at positions [(page-1)*limit, page*limit) by
\* creation time descending, which is empty (with status 200) when
\* (page-1)*limit >= the number of matching products.
C5_Satisfies(p, q) ==
    /\ ("category" \in q.has /\ q.category \notin {"", "all"})
          => ("category" \in DOMAIN p /\ p.category = q.category)
    /\ ("color" \in q.has /\ q.color \notin {"", "all"})
          => ("color" \in DOMAIN p /\ p.color = q.color)
    /\ ({"minPrice", "maxPrice"} \subseteq q.has
          /\ q.minPrice \in {"10", "20"} /\ q.maxPrice \in {"10", "20"})
          => /\ "price" \in DOMAIN p
             /\ p.price >= ParseFloat(q.minPrice).v
             /\ p.price <= ParseFloat(q.maxPrice).v

C5_Counted ==
    (list' # list /\ list'.pc = "counted") =>
        LET n == Cardinality({p \in products : C5_Satisfies(p, list'.query)})
            limit == LimitOf(list'.query)
        IN /\ list'.totalProducts = n
           /\ list'.totalPages * limit >= n
           /\ (list'.totalPages - 1) * limit < n

C5_Found ==
    (list.pc = "counted" /\ list'.pc = "done" /\ list'.status = 200) =>
        LET M == {p \in products : C5_Satisfies(p, list.query)}
            lo == (PageOf(list.query) - 1) * LimitOf(list.query)
            got == list'.products
        IN /\ Len(got) = Max(0, Min(LimitOf(list.query), Cardinality(M) - lo))
           /\ \A i \in 1..Len(got) :
                 \E p \in M :
                    /\ got[i].id = p.id /\ got[i].name = p.name
                    /\ Cardinality({o \in M : o.createdAt > p.createdAt}) = lo + i - 1
           /\ list'.totalProducts = list.totalProducts
           /\ list'.totalPages = list.totalPages

C5_ListPagination == [][C5_Counted /\ C5_Found]_vars

\* the second page of two products, one per page
C5_Witness ==
    /\ list.pc = "done" /\ list.status = 200
    /\ "page" \in list.query.has /\ PageOf(list.query) = 2 /\ LimitOf(list.query) = 1
    /\ list.totalProducts = 2 /\ list.totalPages = 2
    /\ Len(list.products) = 1

\* C6: GET /related/:id for a stored target T answers exactly the stored
\* products other than T whose name contains, case-insensitively, a
\* whitespace-separated token of T's name longer than one character, or
\* whose category equals T's; T is never in the answer.
C6_Tokens(name) ==
    {SubSeq(name, x[1], x[2]) :
        x \in {y \in (1..Len(name)) \X (1..Len(name)) :
                 /\ y[2] > y[1]
                 /\ \A k \in y[1]..y[2] : name[k] # " "
                 /\ (y[1] = 1 \/ name[y[1] - 1] = " ")
                 /\ (y[2] = Len(name) \/ name[y[2] + 1] = " ")}}

C6_Contains(s, w) ==
    \E i \in 1..Len(s) :
        /\ i + Len(w) - 1 <= Len(s)
        /\ \A j \in 1..Len(w) : Lower(s[i + j - 1]) = Lower(w[j])

C6_SharesToken(p, t) == \E w \in C6_Tokens(t.name) : C6_Contains(p.name, w)

\* the category of a document: the one-element sequence of its category,
\* empty when it holds none
C6_Category(p) == IF "category" \in DOMAIN p THEN <<p.category>> ELSE <<>>

C7_EmptyPatternMatchesNothing ==
    (rel.pc = "done" /\ rel.status = 200 /\ C6_Tokens(rel.product.name) = {})
        => \A p \in rel.result :
              /\ ~RegExpTest(rel.pattern, p.name)
              /\ C6_Category(p) = C6_Category(rel.product)

\* C8: a 500 response carries only a fixed generic message, never the text
\* of the error that was thrown, and an update payload that fails validation
\* is answered 400.
C8_ErrorTranslation ==
    resp.op \in {"upload", "create", "update"} =>
        /\ resp.status = 500 => DOMAIN resp.body = {"message"}
        /\ (resp.op = "update" /\ "name" \in resp.req.body.has
              /\ resp.req.body.name = <<>>) => resp.status = 400

\* C9 as stated: an update of an id that resolves to no product is answered
\* 404 (the persistence call not failing).
C9_UpdateStep == resp' # resp /\ resp'.op = "update"

C9_PersistenceFailed(r) == r.status = 500 /\ r.body.error = "MongoError"

C9_PayloadRejected(body) ==
    \/ "name" \in body.has /\ body.name = <<>>
    \/ "author" \in body.has /\ body.author \notin ObjectIds

C10_NotFound ==
    (one' # one /\ one.pc \in {"idle", "done"}
        /\ \A p \in products : p.id # one'.id)
      => /\ one'.pc = "done"
         /\ one'.status \in {404, 500}
         /\ ~one'.fetched /\ one'.reviews = {}

C10_Found ==
    (one' # one /\ one'.pc = "found")
      => \E p \in products : p.id = one'.id /\ one'.product.id = p.id
                             /\ one'.product.name = p.name

C10_Reviews ==
    (one.pc = "found" /\ one'.pc = "done" /\ one'.status = 200)
      => /\ one'.product = one.product
         /\ one'.reviews \subseteq reviews
         /\ \A r \in reviews : r \in one'.reviews <=> r.productId = one'.product.id

C10_GetOneWithReviews == [][C10_NotFound /\ C10_Found /\ C10_Reviews]_vars

\* a product page whose review query ran after the product was deleted, with
\* a review of its own and a review of another product in the store
C10_Witness ==
    /\ one.pc = "done" /\ one.status = 200
    /\ one.reviews # {}
    /\ \E r \in reviews : r.productId # one.id
    /\ \A p \in products : p.id # one.id
-----------------------------------------------------------------------------
====
